---- MODULE Spec2Model ----
(***************************************************************************)
(* Model of cnmaps/maps.py: the boundary resolution of get_adm_maps, the   *)
(* name projection of get_adm_names, the geometry loader read_mapjson and  *)
(* the polygon algebra of MapPolygon.                                      *)
(*                                                                         *)
(* Strings of the source that are not ASCII are written in pinyin:         *)
(*   level tokens   "guo" "sheng" "shi" "qu" "xian" "quxian" "qu/xian"     *)
(*   frame columns  "guojia" "sheng/zhixiashi" "shi" "qu/xian" "jibie"     *)
(*                  "laiyuan" "leixing"                                    *)
(*   default args   country "Zhongguo", source "gaode"                     *)
(* Python's None is the value NONE.                                        *)
(***************************************************************************)
EXTENDS Naturals, Integers, Sequences, FiniteSets, TLC

VARIABLES
    store,      \* rows of table ADMINISTRATIVE in the sqlite file, in rowid order
    pc,         \* "idle" before the call, "done" after it ended
    caller,     \* which entry point was called
    args,       \* the arguments of the call
    con,        \* the sqlite3 connection of the call
    executed,   \* the queries run on the cursor, in order
    loaded,     \* the paths handed to read_mapjson, in order
    level,      \* the local variable level after derivation
    result,     \* how get_adm_maps ended and what it returned
    names,      \* how get_adm_names ended and what it returned
    lhs, rhs,   \* operands of the last MapPolygon operation
    op,         \* the last MapPolygon operation
    out         \* what the last MapPolygon operation returned

vars == <<store, pc, caller, args, con, executed, loaded, level, result, names,
          lhs, rhs, op, out>>

resolveVars == <<store, pc, caller, args, con, executed, loaded, level, result, names>>
algebraVars == <<lhs, rhs, op, out>>

NONE == "None"

\* Largest number of rows in the table.
MaxRows == 2

\* Number of unit cells of the plane the polygons are drawn on.
GridCells == 4

-----------------------------------------------------------------------------
(* Python truthiness of an optional string argument.                       *)
Truthy(v) == v \notin {NONE, ""}

-----------------------------------------------------------------------------
(* Geometry values.  A polygon is the set of unit cells it covers; the     *)
(* cells lie on a grid two cells wide, numbered row by row.                *)

Cells == 1..GridCells

EmptyGeoms == <<>>

Geometry(cls, geoms) == [cls |-> cls, geoms |-> geoms]

None == Geometry("NoneType", EmptyGeoms)

\* MapPolygon.__init__: a multi-polygon of the given polygons
MapPolygon(polygons) == Geometry("MapPolygon", polygons)

-----------------------------------------------------------------------------
(* Geometry assets below DATA_DIR/geojson.min.  A document has a type, a   *)
(* nested coordinates list and possibly a wrapper with a member geometry.  *)
(* A type is the sequence of the words of its name.                        *)

GeoJson(type, coordinates) == [type |-> type, coordinates |-> coordinates]

Feature(geometry) == [geometry |-> geometry, properties |-> NONE]

Files ==
    ("land.json"   :> Feature(GeoJson(<<"Multi", "Polygon">>, << <<{1, 2}>>, <<{4}>> >>))) @@
    ("bare.json"   :> GeoJson(<<"Multi", "Polygon">>, << <<{1}, {3}>> >>)) @@
    ("line.json"   :> Feature(GeoJson(<<"Multi", "Line", "String">>, << <<{1}>>, <<{2}>> >>))) @@
    ("point.json"  :> Feature(GeoJson(<<"Point">>, <<>>))) @@
    ("string.json" :> GeoJson(<<"Line", "String">>, <<>>))

\* a path of the table that has no file
MissingPath == "missing.json"

\* 'Polygon' in geometry['type']
Contains(type, word) == \E i \in 1..Len(type) : type[i] = word

RECURSIVE Flatten(_)
\* the nested loops over geometry['coordinates']: every ring, in order
Flatten(coordinates) ==
    IF coordinates = <<>> THEN <<>>
    ELSE Head(coordinates) \o Flatten(Tail(coordinates))

\* read_mapjson: "error" when open() fails, else the value returned
read_mapjson(fp) ==
    IF fp \notin DOMAIN Files
    THEN [error |-> "FileNotFoundError", value |-> None]
    ELSE LET map_json == Files[fp]
             geometry == IF "geometry" \in DOMAIN map_json
                         THEN map_json.geometry ELSE map_json
         IN  IF Contains(geometry.type, "Polygon")
             THEN [error |-> NONE,
                   value |-> MapPolygon(Flatten(geometry.coordinates))]
             ELSE IF geometry.type = <<"Multi", "Line", "String">>
             THEN [error |-> NONE,
                   value |-> Geometry("MultiLineString", geometry.coordinates)]
             ELSE [error |-> NONE, value |-> None]

-----------------------------------------------------------------------------
(* The table ADMINISTRATIVE.                                               *)

Row(country, province, city, district, lvl, source, path) ==
    [country |-> country, province |-> province, city |-> city,
     district |-> district, level |-> lvl, source |-> source,
     kind |-> "land", path |-> path]

\* the rows a table is made of
RowPool == <<
    Row("Zhongguo", NONE,      NONE,       NONE,      "guo",    "gaode", "land.json"),
    Row("Zhongguo", "Hebei",   NONE,       NONE,      "sheng",  "gaode", "bare.json"),
    Row("Zhongguo", "Hebei",   "Tangshan", NONE,      "shi",    "gaode", "land.json"),
    Row("Zhongguo", "Hebei",   "Tangshan", "Lunan",   "quxian", "gaode", "bare.json"),
    Row("Zhongguo", "Beijing", "Beijing",  "Haidian", "quxian", "gaode", "land.json"),
    Row("Zhongguo", "Beijing", "Beijing",  NONE,      "sheng",  "osm",   "line.json"),
    Row("Zhongguo", NONE,      NONE,       NONE,      "guo",    "osm",   "point.json"),
    Row("Zhongguo", "Hebei",   "Tangshan", NONE,      "shi",    "osm",   MissingPath) >>

RECURSIVE Pick(_, _)
\* the rows of the pool with an index in S, in pool order
Pick(S, i) ==
    IF i > Len(RowPool) THEN <<>>
    ELSE (IF i \in S THEN <<RowPool[i]>> ELSE <<>>) \o Pick(S, i + 1)

Stores ==
    {Pick(S, 1) : S \in {T \in SUBSET (1..Len(RowPool)) : Cardinality(T) <= MaxRows}}

-----------------------------------------------------------------------------
(* get_adm_maps                                                            *)

NameFields == <<"country", "province", "city", "district">>

\* country_level, province_level, city_level, district_level when set
FieldLevel == <<"guo", "sheng", "shi", "quxian">>

\* len(list(cur.execute("SELECT id FROM ADMINISTRATIVE WHERE 1 AND f='v'")));
\* a SELECT yields the matching rows in rowid order
Count(rows, f, v) == Len(SelectSeq(rows, LAMBDA r : r[f] = v))

RECURSIVE ValidateUnchecked(_, _, _, _)
\* Validate without the test of count
ValidateUnchecked(rows, a, k, done) ==
    IF k > Len(NameFields) THEN [error |-> NONE, site |-> NONE, executed |-> done]
    ELSE IF Truthy(a[NameFields[k]])
    THEN ValidateUnchecked(rows, a, k + 1, Append(done, NameFields[k]))
    ELSE ValidateUnchecked(rows, a, k + 1, done)

RECURSIVE Validate(_, _, _, _)
\* the four blocks "if country: ... if district: ...", from block k on
Validate(rows, a, k, done) ==
    IF k > Len(NameFields) THEN [error |-> NONE, site |-> NONE, executed |-> done]
    ELSE LET f == NameFields[k]
         IN  IF Truthy(a[f])
             THEN IF Count(rows, f, a[f]) = 0
                  THEN [error |-> "MapNotFoundError", site |-> f,
                        executed |-> Append(done, f)]
                  ELSE Validate(rows, a, k + 1, Append(done, f))
             ELSE Validate(rows, a, k + 1, done)

\* x_level of block k: the tier when the field is given, else None
LevelOf(a, k) == IF Truthy(a[NameFields[k]]) THEN FieldLevel[k] ELSE NONE

\* Python's "x or y"
Or(x, y) == IF Truthy(x) THEN x ELSE y

\* DeriveLevel with the tier of the docstring when no field is given
DeriveLevelDefault(a) ==
    IF ~Truthy(a.level)
    THEN Or(LevelOf(a, 4), Or(LevelOf(a, 3), Or(LevelOf(a, 2), Or(LevelOf(a, 1), "sheng"))))
    ELSE a.level

\* DeriveLevel with the operands of "or" in the opposite order
DeriveLevelCoarse(a) ==
    IF ~Truthy(a.level)
    THEN Or(LevelOf(a, 1), Or(LevelOf(a, 2), Or(LevelOf(a, 3), LevelOf(a, 4))))
    ELSE a.level

\* if not level: level = district_level or city_level or province_level or country_level
DeriveLevel(a) ==
    IF ~Truthy(a.level)
    THEN Or(LevelOf(a, 4), Or(LevelOf(a, 3), Or(LevelOf(a, 2), LevelOf(a, 1))))
    ELSE a.level

\* x_sql of block k: the value the column must equal, NONE for the empty clause
SqlOf(a, k) == IF Truthy(a[NameFields[k]]) THEN a[NameFields[k]] ELSE NONE

\* Narrow without the assignments that empty the finer clauses
NarrowKeepAll(lvl, a) ==
    LET sql == [k \in 1..4 |-> SqlOf(a, k)]
    IN  IF lvl = "guo" THEN [error |-> NONE, level_sql |-> "guo", sql |-> sql]
        ELSE IF lvl = "sheng" THEN [error |-> NONE, level_sql |-> "sheng", sql |-> sql]
        ELSE IF lvl = "shi" THEN [error |-> NONE, level_sql |-> "shi", sql |-> sql]
        ELSE IF lvl \in {"qu", "xian", "quxian", "qu/xian"}
        THEN [error |-> NONE, level_sql |-> "quxian", sql |-> sql]
        ELSE [error |-> "ValueError", level_sql |-> NONE, sql |-> sql]

\* Narrow with the district tier as the last branch instead of the raise
NarrowLax(lvl, a) ==
    LET sql == [k \in 1..4 |-> SqlOf(a, k)]
        keep(n, tag) == [error |-> NONE, level_sql |-> tag,
                         sql |-> [k \in 1..4 |-> IF k <= n THEN sql[k] ELSE NONE]]
    IN  IF lvl = "guo" THEN keep(1, "guo")
        ELSE IF lvl = "sheng" THEN keep(2, "sheng")
        ELSE IF lvl = "shi" THEN keep(3, "shi")
        ELSE keep(4, "quxian")

\* the chain "if level == ... elif ... else: raise ValueError"
Narrow(lvl, a) ==
    LET sql == [k \in 1..4 |-> SqlOf(a, k)]
        keep(n, tag) == [error |-> NONE, level_sql |-> tag,
                         sql |-> [k \in 1..4 |-> IF k <= n THEN sql[k] ELSE NONE]]
    IN  IF lvl = "guo" THEN keep(1, "guo")
        ELSE IF lvl = "sheng" THEN keep(2, "sheng")
        ELSE IF lvl = "shi" THEN keep(3, "shi")
        ELSE IF lvl \in {"qu", "xian", "quxian", "qu/xian"} THEN keep(4, "quxian")
        ELSE [error |-> "ValueError", level_sql |-> NONE, sql |-> sql]

\* source_sql
SourceSql(a) == IF Truthy(a.source) THEN a.source ELSE NONE

\* Where without the clause on source
WhereAnySource(n, source_sql, r) ==
    /\ r.level = n.level_sql
    /\ \A k \in 1..4 : n.sql[k] # NONE => r[NameFields[k]] = n.sql[k]

\* WHERE {level_sql} {country_sql} {province_sql} {city_sql} {district_sql} {source_sql}
Where(n, source_sql, r) ==
    /\ r.level = n.level_sql
    /\ \A k \in 1..4 : n.sql[k] # NONE => r[NameFields[k]] = n.sql[k]
    /\ source_sql # NONE => r.source = source_sql

RECURSIVE LoadAll(_, _, _)
\* for path in gemo_rows: map_polygons.append(read_mapjson(...))
LoadAll(rows, paths, map_polygons) ==
    IF rows = <<>> THEN [error |-> NONE, loaded |-> paths, map_polygons |-> map_polygons]
    ELSE LET mapjson == read_mapjson(Head(rows).path)
         IN  IF mapjson.error # NONE
             THEN [error |-> mapjson.error, loaded |-> Append(paths, Head(rows).path),
                   map_polygons |-> map_polygons]
             ELSE LoadAll(Tail(rows), Append(paths, Head(rows).path),
                          Append(map_polygons, mapjson.value))

\* one row of gdf as a dict: the columns of the frame and geometry
FrameRow(r, g) ==
    ("guojia" :> r.country) @@ ("sheng/zhixiashi" :> r.province) @@
    ("shi" :> r.city) @@ ("qu/xian" :> r.district) @@ ("jibie" :> r.level) @@
    ("laiyuan" :> r.source) @@ ("leixing" :> r.kind) @@ ("geometry" :> g)

\* gdf = GeoDataFrame(meta_rows, columns); gdf['geometry'] = map_polygons
Frame(meta_rows, map_polygons) ==
    [i \in 1..Len(meta_rows) |-> FrameRow(meta_rows[i], map_polygons[i])]

Value(type, items) == [type |-> type, items |-> items]

NoValue == Value("NoneType", <<>>)

\* the chain on record, only_polygon and engine that ends get_adm_maps
Shape(gdf, a) ==
    LET geometries == [i \in 1..Len(gdf) |-> gdf[i]["geometry"]]
    IN  IF a.record = "all"
        THEN IF a.only_polygon THEN Value("list of geometry", geometries)
             ELSE IF a.engine = "geopandas" THEN Value("GeoDataFrame", gdf)
             ELSE IF a.engine = NONE THEN Value("list of dict", gdf)
             ELSE NoValue
        ELSE IF a.record = "first"
        THEN IF a.only_polygon THEN Value("geometry", <<geometries[1]>>)
             ELSE IF a.engine = "geopandas" THEN Value("Series", <<gdf[1]>>)
             ELSE IF a.engine = NONE THEN Value("dict", <<gdf[1]>>)
             ELSE NoValue
        ELSE NoValue

Outcome(error, site, queries, paths, lvl, value) ==
    [error |-> error, site |-> site, executed |-> queries, loaded |-> paths,
     level |-> lvl, value |-> value]

\* the body of get_adm_maps after the connection is opened
Resolve(rows, a) ==
    LET checked == Validate(rows, a, 1, <<>>)
        lvl == DeriveLevel(a)
        n == Narrow(lvl, a)
        meta_rows == SelectSeq(rows, LAMBDA r : Where(n, SourceSql(a), r))
        gemo_rows == SelectSeq(rows, LAMBDA r : Where(n, SourceSql(a), r))
        queries == checked.executed \o <<"meta", "geom">>
        geoms == LoadAll(gemo_rows, <<>>, <<>>)
        gdf == Frame(meta_rows, geoms.map_polygons)
    IN  IF checked.error # NONE
        THEN Outcome(checked.error, checked.site, checked.executed, <<>>, a.level, NoValue)
        ELSE IF n.error # NONE
        THEN Outcome(n.error, "level", checked.executed, <<>>, lvl, NoValue)
        ELSE IF geoms.error # NONE
        THEN Outcome(geoms.error, "load", queries, geoms.loaded, lvl, NoValue)
        ELSE IF Len(gdf) = 0
        THEN Outcome("MapNotFoundError", "empty", queries, geoms.loaded, lvl, NoValue)
        ELSE Outcome(NONE, NONE, queries, geoms.loaded, lvl, Shape(gdf, a))

\* get_adm_names: the call of get_adm_maps, then the chain on level
Project(lvl, outcome) ==
    LET data == outcome.value.items
        column(key) ==
            IF \E i \in 1..Len(data) : key \notin DOMAIN data[i]
            THEN [error |-> "KeyError", value |-> <<>>]
            ELSE [error |-> NONE, value |-> [i \in 1..Len(data) |-> data[i][key]]]
    IN  IF outcome.error # NONE THEN [error |-> outcome.error, value |-> <<>>]
        ELSE IF lvl = "guo" THEN column("guo")
        ELSE IF lvl = "sheng" THEN column("sheng/zhixiashi")
        ELSE IF lvl = "shi" THEN column("shi")
        ELSE IF lvl = "quxian" THEN column("qu/xian")
        ELSE [error |-> "UnboundLocalError", value |-> <<>>]

-----------------------------------------------------------------------------
(* The geometry engine behind MapPolygon (shapely's MultiPolygon).         *)

CellRow(c) == (c - 1) \div 2
CellCol(c) == (c - 1) % 2

\* two cells that share a side
Adjacent(a, b) ==
    \/ CellRow(a) = CellRow(b) /\ (CellCol(a) = CellCol(b) + 1 \/ CellCol(b) = CellCol(a) + 1)
    \/ CellCol(a) = CellCol(b) /\ (CellRow(a) = CellRow(b) + 1 \/ CellRow(b) = CellRow(a) + 1)

RECURSIVE Grow(_, _)
\* the cells of S joined to those of C by shared sides
Grow(S, C) ==
    LET more == {c \in S : \E d \in C : Adjacent(c, d)} \ C
    IN  IF more = {} THEN C ELSE Grow(S, C \cup more)

Least(S) == CHOOSE c \in S : \A d \in S : c <= d

RECURSIVE Components(_)
\* the connected parts of a set of cells, ordered by their least cell
Components(S) ==
    IF S = {} THEN <<>>
    ELSE LET part == Grow(S, {Least(S)})
         IN  <<part>> \o Components(S \ part)

\* the cells a geometry covers
CellsOf(g) == UNION {g.geoms[i] : i \in 1..Len(g.geoms)}

\* the values a MapPolygon can have on the grid
MapPolygons == {MapPolygon(Components(S)) : S \in SUBSET Cells}

\* an empty result: a GeometryCollection or a Polygon, as the GEOS build decides
Empties == {Geometry("GeometryCollection", <<>>), Geometry("Polygon", <<{}>>)}

\* a result that is an area
Polygonal(S) ==
    IF S = {} THEN Empties
    ELSE IF Len(Components(S)) = 1 THEN {Geometry("Polygon", Components(S))}
    ELSE {Geometry("MultiPolygon", Components(S))}

\* the corners of the grid, and the corners a cell has
Corners == (0..(CellRow(GridCells) + 1)) \X (0..2)
Touches(c, p) == CellRow(c) \in {p[1] - 1, p[1]} /\ CellCol(c) \in {p[2] - 1, p[2]}

\* sides where a cell of A not in B meets a cell of B not in A
SharedSides(A, B) == {e \in (A \ B) \X (B \ A) : Adjacent(e[1], e[2])}

\* corners where A and B meet without sharing a cell or a side there
SharedCorners(A, B) ==
    {p \in Corners :
        /\ \E a \in A : Touches(a, p)
        /\ \E b \in B : Touches(b, p)
        /\ ~ \E c \in A \cap B : Touches(c, p)
        /\ ~ \E e \in SharedSides(A, B) : Touches(e[1], p) /\ Touches(e[2], p)}

\* BaseGeometry.union of two multi-polygons
shapely_union(a, b) == Polygonal(CellsOf(a) \cup CellsOf(b))

\* BaseGeometry.difference of two multi-polygons
shapely_difference(a, b) == Polygonal(CellsOf(a) \ CellsOf(b))

\* BaseGeometry.intersection of two multi-polygons
shapely_intersection(a, b) ==
    LET A == CellsOf(a)
        B == CellsOf(b)
        sides == SharedSides(A, B)
        corners == SharedCorners(A, B)
    IN  IF sides = {} /\ corners = {} THEN Polygonal(A \cap B)
        ELSE IF A \cap B # {} \/ (sides # {} /\ corners # {})
        THEN {Geometry("GeometryCollection", Components(A \cap B))}
        ELSE IF sides # {}
        THEN {Geometry(IF Cardinality(sides) = 1 THEN "LineString" ELSE "MultiLineString", <<>>)}
        ELSE {Geometry(IF Cardinality(corners) = 1 THEN "Point" ELSE "MultiPoint", <<>>)}

-----------------------------------------------------------------------------
(* MapPolygon                                                              *)

\* MapPolygon.union, given what super().union(other) returned
union(union_result) ==
    IF union_result.cls = "Polygon" THEN MapPolygon(union_result.geoms)
    ELSE IF union_result.cls = "MultiPolygon" THEN MapPolygon(union_result.geoms)
    ELSE None

\* MapPolygon.difference, given what super().difference(other) returned
difference(difference_result) ==
    IF difference_result.cls = "Polygon" THEN MapPolygon(difference_result.geoms)
    ELSE IF difference_result.cls = "MultiPolygon" THEN MapPolygon(difference_result.geoms)
    ELSE None

\* MapPolygon.intersection, given what super().intersection(other) returned
intersection(intersection_result) ==
    IF intersection_result.cls = "Polygon" THEN MapPolygon(intersection_result.geoms)
    ELSE IF intersection_result.cls = "MultiPolygon" THEN MapPolygon(intersection_result.geoms)
    ELSE MapPolygon(EmptyGeoms)

\* None has no method union, intersection or difference, and is no geometry
Raised == Geometry("AttributeError", EmptyGeoms)

-----------------------------------------------------------------------------
(* Calls.                                                                  *)

Levels == {NONE, "guo", "sheng", "shi", "qu", "xian", "quxian", "qu/xian", "town"}

\* the arguments get_adm_names passes on
NamesArgs ==
    [country : {NONE, "Zhongguo"}, province : {NONE, "Hebei", "Beijing"},
     city : {NONE, "Tangshan", "Beijing"}, district : {NONE, "Lunan", "Haidian"},
     level : Levels, source : {NONE, "gaode", "osm"},
     record : {"all"}, only_polygon : {FALSE}, engine : {NONE}]

\* the arguments of get_adm_maps
MapsArgs ==
    [country : {NONE, "Zhongguo"}, province : {NONE, "Hebei", "Beijing"},
     city : {NONE, "Tangshan", "Beijing"}, district : {NONE, "Lunan", "Haidian"},
     level : Levels, source : {NONE, "gaode", "osm"},
     record : {"all", "first"}, only_polygon : BOOLEAN,
     engine : {NONE, "geopandas", "pandas"}]

NoArgs ==
    [country |-> NONE, province |-> NONE, city |-> NONE, district |-> NONE,
     level |-> NONE, source |-> NONE, record |-> "all", only_polygon |-> FALSE,
     engine |-> NONE]

NoResult == [error |-> NONE, site |-> NONE, value |-> NoValue]

NoNames == [error |-> NONE, value |-> <<>>]

InitResolve ==
    /\ pc = "idle"
    /\ caller = NONE
    /\ args = NoArgs
    /\ con = "none"
    /\ executed = <<>>
    /\ loaded = <<>>
    /\ level = NONE
    /\ result = NoResult
    /\ names = NoNames

InitAlgebra ==
    /\ lhs = MapPolygon(EmptyGeoms)
    /\ rhs = MapPolygon(EmptyGeoms)
    /\ op = NONE
    /\ out = None

Init ==
    /\ store \in Stores
    /\ InitResolve
    /\ InitAlgebra

\* con = sqlite3.connect(db); cur = con.cursor(); then the body
Call(a) ==
    LET outcome == Resolve(store, a)
    IN  /\ args' = a
        /\ con' = "open"
        /\ executed' = outcome.executed
        /\ loaded' = outcome.loaded
        /\ level' = outcome.level
        /\ result' = [error |-> outcome.error, site |-> outcome.site,
                      value |-> outcome.value]

GetAdmMaps ==
    /\ pc = "idle"
    /\ \E a \in MapsArgs : Call(a)
    /\ caller' = "get_adm_maps"
    /\ pc' = "done"
    /\ UNCHANGED <<store, names>>
    /\ UNCHANGED algebraVars

GetAdmNames ==
    /\ pc = "idle"
    /\ \E a \in NamesArgs :
          /\ Call(a)
          /\ names' = Project(a.level, Resolve(store, a))
    /\ caller' = "get_adm_names"
    /\ pc' = "done"
    /\ UNCHANGED store
    /\ UNCHANGED algebraVars

Next == GetAdmMaps \/ GetAdmNames

Spec == Init /\ [][Next]_vars

-----------------------------------------------------------------------------
(* Expressions over MapPolygon values.                                     *)

\* what an expression can be applied to: a MapPolygon, or the last result
Operands == MapPolygons \cup (IF op = NONE \/ out = Raised THEN {} ELSE {out})

\* a.method(b): the values the call can return
Apply(method, a, b) ==
    IF a.cls # "MapPolygon" \/ b.cls # "MapPolygon" THEN {Raised}
    ELSE IF method = "union" THEN {union(r) : r \in shapely_union(a, b)}
    ELSE IF method = "difference" THEN {difference(r) : r \in shapely_difference(a, b)}
    ELSE {intersection(r) : r \in shapely_intersection(a, b)}

Operate(method) ==
    /\ \E a \in Operands, b \in Operands :
          /\ lhs' = a
          /\ rhs' = b
          /\ out' \in Apply(method, a, b)
    /\ op' = method
    /\ UNCHANGED resolveVars

\* __add__
Union == Operate("union")

\* __and__
Intersection == Operate("intersection")

\* __sub__
Difference == Operate("difference")

InitPolygons ==
    /\ store = <<>>
    /\ InitResolve
    /\ InitAlgebra

NextPolygons == Union \/ Intersection \/ Difference

SpecPolygons == InitPolygons /\ [][NextPolygons]_vars

-----------------------------------------------------------------------------
(* What the specification says of a call, stated on the table itself.      *)

Range(q) == {q[i] : i \in 1..Len(q)}

Recognized == {"guo", "sheng", "shi", "qu", "xian", "quxian", "qu/xian"}

Given(f) == args[f] \notin {NONE, ""}

\* the name field f is given and no row of the table has that name
Unmatched(f) == Given(f) /\ ~ \E i \in 1..Len(store) : store[i][f] = args[f]

AllMatched == \A f \in Range(NameFields) : ~Unmatched(f)

NoNameGiven == \A f \in Range(NameFields) : ~Given(f)

\* the name fields that are given, in the order country, province, city, district
GivenFields == SelectSeq(NameFields, Given)

\* the tier of the most specific name field that is given
MostSpecific ==
    IF Given("district") THEN "quxian"
    ELSE IF Given("city") THEN "shi"
    ELSE IF Given("province") THEN "sheng"
    ELSE IF Given("country") THEN "guo"
    ELSE NONE

EffectiveLevel == IF Given("level") THEN args.level ELSE MostSpecific

\* the depth of a tier in country > province > city > district
Tier(lvl) ==
    IF lvl = "guo" THEN 1 ELSE IF lvl = "sheng" THEN 2 ELSE IF lvl = "shi" THEN 3 ELSE 4

TierTag == <<"guo", "sheng", "shi", "quxian">>

\* row r has the effective level, the given source and the given names down to that level
Wanted(r) ==
    /\ r.level = TierTag[Tier(EffectiveLevel)]
    /\ Given("source") => r.source = args.source
    /\ \A k \in 1..Tier(EffectiveLevel) :
          Given(NameFields[k]) => r[NameFields[k]] = args[NameFields[k]]

WantedRows == SelectSeq(store, Wanted)

Ended == pc = "done"

Returned == Ended /\ result.error = NONE

\* the store columns of a returned row
Meta(d) ==
    [country |-> d["guojia"], province |-> d["sheng/zhixiashi"], city |-> d["shi"],
     district |-> d["qu/xian"], level |-> d["jibie"], source |-> d["laiyuan"]]

MetaOf(r) ==
    [country |-> r.country, province |-> r.province, city |-> r.city,
     district |-> r.district, level |-> r.level, source |-> r.source]

-----------------------------------------------------------------------------
\* C1: a call with a given name field that no row has fails with
\* MapNotFoundError, with neither combined query run nor a geometry loaded.
C1_UnmatchedFieldFailsFirst ==
    (Ended /\ \E f \in Range(NameFields) : Unmatched(f))
        => /\ result.error = "MapNotFoundError"
           /\ "meta" \notin Range(executed)
           /\ "geom" \notin Range(executed)
           /\ loaded = <<>>
           /\ result.value = NoValue

C1_Witness ==
    /\ Ended
    /\ Given("country") /\ ~Unmatched("country")
    /\ Unmatched("district")
    /\ args.level = "town"
    /\ result.error = "MapNotFoundError"
    /\ executed = <<"country", "district">>

\* C2: with a recognized effective level, every given name present in the
\* table and no row wanted, the call runs every per-field query and both
\* combined queries and then fails with MapNotFoundError at the test of
\* len(gdf), returning nothing.
C2_JointMissFailsAtCombinedStage ==
    (Ended /\ EffectiveLevel \in Recognized /\ AllMatched /\ WantedRows = <<>>)
        => /\ result.error = "MapNotFoundError"
           /\ result.site = "empty"
           /\ executed = GivenFields \o <<"meta", "geom">>
           /\ loaded = <<>>
           /\ result.value = NoValue

C2_Witness ==
    /\ Ended
    /\ Given("city") /\ Given("district") /\ ~Given("level")
    /\ AllMatched
    /\ WantedRows = <<>>
    /\ \E i \in 1..Len(store) : store[i].level = "quxian"
    /\ result.error = "MapNotFoundError"
    /\ result.site = "empty"

C6_Original ==
    (Ended /\ Given("level") /\ args.level \notin Recognized)
        => result.error = "ValueError"

\* C6 amended: a call with a level outside the recognized tokens and every
\* given name field present in the table fails with ValueError, before the
\* combined queries, and returns nothing.
C6_InvalidLevelRejected ==
    (Ended /\ Given("level") /\ args.level \notin Recognized /\ AllMatched)
        => /\ result.error = "ValueError"
           /\ executed = GivenFields
           /\ loaded = <<>>
           /\ result.value = NoValue

C6_Witness ==
    /\ Ended
    /\ args.level = "town"
    /\ Given("province") /\ Given("country")
    /\ AllMatched
    /\ result.error = "ValueError"
    /\ executed = <<"country", "province">>

\* C7: union, intersection and difference of two MapPolygon operands each
\* return a MapPolygon, whatever kind of geometry the engine produced.
C7_AlgebraClosed ==
    (op # NONE /\ lhs.cls = "MapPolygon" /\ rhs.cls = "MapPolygon")
        => out.cls = "MapPolygon"

\* C8: get_adm_names with a recognized level and a successful resolution
\* returns the name of the level's tier of every resolved row.
C8_NamesProjected ==
    (Ended /\ caller = "get_adm_names" /\ args.level \in Recognized /\ result.error = NONE)
        => /\ names.error = NONE
           /\ Len(names.value) = Len(result.value.items)
           /\ \A i \in 1..Len(names.value) :
                 names.value[i] = WantedRows[i][NameFields[Tier(args.level)]]

\* C9: a geometry document whose type neither contains Polygon nor is
\* MultiLineString makes the call fail; no None geometry is ever returned.
C9_UnsupportedTypeFails ==
    /\ (Ended /\ \E i \in 1..Len(loaded) :
            /\ loaded[i] \in DOMAIN Files
            /\ LET doc == Files[loaded[i]]
                   type == IF "geometry" \in DOMAIN doc THEN doc.geometry.type ELSE doc.type
               IN  "Polygon" \notin Range(type) /\ type # <<"Multi", "Line", "String">>)
          => result.error # NONE
    /\ (Returned /\ result.value.type = "list of geometry")
          => \A i \in 1..Len(result.value.items) : result.value.items[i] # None

\* C10: no call that has ended leaves its connection open.
C10_ConnectionReleased == Ended => con # "open"

====
